---------------------------- MODULE Spec2Model ----------------------------
(***************************************************************************)
(* A model of the numerical core of notebooks/src: bootstrap.py (resample, *)
(* two_sample_bootstrap_test) and keyness.py (compute_expected,            *)
(* get_observed_from_row, compute_log_likelihood_from_observed,            *)
(* compute_category_totals, compute_keyness).                              *)
(*                                                                         *)
(* Numbers.  A float is a pair <<n, d>> of integers: d > 0 is the rational *)
(* n/d in lowest terms, <<1, 0>> is +inf, <<-1, 0>> is -inf and <<0, 0>>   *)
(* is NaN.  Arithmetic is exact on the rationals and follows IEEE-754 on   *)
(* the three special values (x/0, inf - inf, 0 * inf, comparisons with     *)
(* NaN); rounding is not modelled.                                         *)
(***************************************************************************)
EXTENDS Integers, Sequences, FiniteSets, TLC

VARIABLES
    \* resample(sample, resample_length) called on its own
    sample, resample_length, resample_index, resample_ret, resample_pc,
    \* two_sample_bootstrap_test(sample1, sample2, stat_func, num_samples)
    sample1, sample2, stat_func, num_samples,
    n, resample1, resample2, res1, res2,
    resampled_stats, resampled_signs, p_value, diagnostics,
    rng_draws, pc,
    \* the random source np.random behind resample, and the calls made on it
    rng, rng_log,
    \* a caller that seeds, calls, seeds again and calls again
    run, first_result,
    \* compute_expected / compute_log_likelihood_from_observed on a 2x2 table
    observed, expected, ll, ll_pc,
    \* compute_category_totals and compute_keyness on a frequency table
    keyword_cat_freq, keyword_cat_totals, category, key_observed, keyness,
    key_pc,
    \* run_summary on one model: get_topics, then add_isbn with map_topics
    tv, dv, document_topics, unused_topics, topics_with_isbn,
    topics_without_isbn, topics_without_isbn_, topic_pc

resVars  == <<sample, resample_length, resample_index, resample_ret, resample_pc>>
bootVars == <<sample1, sample2, stat_func, num_samples, n, resample1, resample2,
              res1, res2, resampled_stats, resampled_signs, p_value,
              diagnostics, rng_draws, pc, rng, rng_log, run, first_result>>
llVars   == <<observed, expected, ll, ll_pc>>
keyVars  == <<keyword_cat_freq, keyword_cat_totals, category, key_observed,
             keyness, key_pc>>
topicVars == <<tv, dv, document_topics, unused_topics, topics_with_isbn,
               topics_without_isbn, topics_without_isbn_, topic_pc>>
vars     == <<resVars, bootVars, llVars, keyVars, topicVars>>

---------------------------------------------------------------------------
(* Bounds of the model. *)

\* longest sample, and largest resample_length, drawn
MaxLen == 2
\* largest num_samples drawn
MaxTrials == 2

\* most random indices one call draws in all its trials:
\* num_samples * (len(sample1) + len(sample2))
MaxDraws == 6
\* most random indices a call draws when the caller seeds the generator
MaxSeedDraws == 3
\* largest cell of a 2x2 table of observed counts
MaxCell == 3
\* largest count of one keyword in one category
MaxCount == 2
\* most tagged records a frequency table that changes is built from
MaxRecords == 3
\* most documents of a model
MaxDocs == 2
\* most topics of a model
MaxTopics == 2

\* the values a sample's elements are drawn from
Values == {-1, 0, 1}

\* sample: a finite sequence of numbers (np.array(sample)), possibly empty
Samples == UNION {[1..k -> Values] : k \in 0..MaxLen}

\* the caller-supplied stat_func: np.sum or np.mean
StatFuncs == {"sum", "mean"}

---------------------------------------------------------------------------
(* Floats. *)

Abs(x) == IF x < 0 THEN -x ELSE x

Sgn(x) == IF x > 0 THEN 1 ELSE IF x < 0 THEN -1 ELSE 0

RECURSIVE GCD(_, _)
GCD(a, b) == IF b = 0 THEN a ELSE GCD(b, a % b)

\* the float n/d of two integers (numpy true division), d of any sign
Quot(a, b) ==
    IF b = 0 THEN <<Sgn(a), 0>>
    ELSE LET g == GCD(Abs(a), Abs(b))
         IN  <<(Sgn(b) * a) \div g, Abs(b) \div g>>

Float(i) == <<i, 1>>
Inf  == <<1, 0>>
NegInf == <<-1, 0>>
NaN  == <<0, 0>>

IsNaN(x)    == x[2] = 0 /\ x[1] = 0
IsInf(x)    == x[2] = 0 /\ x[1] # 0
IsFinite(x) == x[2] > 0

\* x > y: false when either is NaN
FGt(x, y) ==
    IF IsNaN(x) \/ IsNaN(y) THEN FALSE
    ELSE IF IsInf(x) \/ IsInf(y)
         THEN (IF IsInf(x) THEN 2 * x[1] ELSE 0) > (IF IsInf(y) THEN 2 * y[1] ELSE 0)
         ELSE x[1] * y[2] > y[1] * x[2]

FGe(x, y) == FGt(x, y) \/ (~IsNaN(x) /\ x = y)

FAdd(x, y) ==
    IF IsNaN(x) \/ IsNaN(y) THEN NaN
    ELSE IF IsInf(x) /\ IsInf(y) THEN (IF x = y THEN x ELSE NaN)
    ELSE IF IsInf(x) THEN x
    ELSE IF IsInf(y) THEN y
    ELSE Quot(x[1] * y[2] + y[1] * x[2], x[2] * y[2])

FNeg(x) == <<-x[1], x[2]>>

FSub(x, y) == FAdd(x, FNeg(y))

FMul(x, y) ==
    IF IsNaN(x) \/ IsNaN(y) THEN NaN
    ELSE IF IsInf(x) \/ IsInf(y) THEN <<Sgn(x[1]) * Sgn(y[1]), 0>>
    ELSE Quot(x[1] * y[1], x[2] * y[2])

FDiv(x, y) ==
    IF IsNaN(x) \/ IsNaN(y) THEN NaN
    ELSE IF IsInf(x) THEN (IF IsInf(y) THEN NaN
                           ELSE <<x[1] * (IF y[1] < 0 THEN -1 ELSE 1), 0>>)
    ELSE IF IsInf(y) THEN Float(0)
    ELSE IF y[1] = 0 THEN <<Sgn(x[1]), 0>>
    ELSE Quot(x[1] * y[2], x[2] * y[1])

RECURSIVE SeqSum(_)
SeqSum(s) == IF Len(s) = 0 THEN 0 ELSE s[1] + SeqSum(Tail(s))

---------------------------------------------------------------------------
(* bootstrap.py: resample *)

\* a randint that never rejects an empty range
randint_raises_never(high, size) == high < 0 /\ size > 0

\* np.random.randint(0, high, size) raises ValueError for an empty range,
\* unless no samples are taken
randint_raises(high, size) == high <= 0 /\ size > 0

\* a randint that draws one index too many
randint_one_more(high, size) == [1..(size + 1) -> 0..(high - 1)]

\* the index arrays np.random.randint(0, high, size) can return
randint(high, size) == [1..size -> 0..(high - 1)]

\* sample[resample_index]: a new array, one element per index
take(smp, idx) == [i \in 1..Len(idx) |-> smp[idx[i] + 1]]

\* the arrays resample(smp, length) can return (none when it raises)
resample(smp, length) ==
    IF randint_raises(Len(smp), length) THEN {}
    ELSE {take(smp, idx) : idx \in randint(Len(smp), length)}

\* np.random is one generator for the whole process.  Seeded, it is a fixed
\* stream of raw numbers read from a position; unseeded, its seed comes from
\* the operating system and nothing about its numbers is known.
Unseeded == [seeded |-> FALSE, stream |-> <<>>, pos |-> 0]
Seeded(stream) == [seeded |-> TRUE, stream |-> stream, pos |-> 0]

rng_indices_unseeded(g, high, size) == randint(high, size)

\* the index arrays np.random.randint(0, high, size) can return from state g
rng_indices(g, high, size) ==
    IF g.seeded
    THEN {[i \in 1..size |-> g.stream[g.pos + i] % high]}
    ELSE randint(high, size)

\* the generator after randint(0, high, size): size numbers are used up
rng_advance(g, size) == IF g.seeded THEN [g EXCEPT !.pos = @ + size] ELSE g

\* resample(smp, length) drawing from the generator in state g
resample_from(g, smp, length) ==
    IF randint_raises(Len(smp), length) THEN {}
    ELSE {take(smp, idx) : idx \in rng_indices(g, Len(smp), length)}

ResIdle ==
    /\ sample = <<>>
    /\ resample_length = 0
    /\ resample_index = <<>>
    /\ resample_ret = <<>>
    /\ resample_pc = "idle"

ResInit ==
    /\ sample \in Samples
    /\ resample_length \in 0..MaxLen
    /\ resample_index = <<>>
    /\ resample_ret = <<>>
    /\ resample_pc = "randint"

\* line 5, the draw fails
ResampleRaise ==
    /\ resample_pc = "randint"
    /\ randint_raises(Len(sample), resample_length)
    /\ resample_pc' = "ValueError"
    /\ UNCHANGED <<sample, resample_length, resample_index, resample_ret>>
    /\ UNCHANGED <<bootVars, llVars, keyVars, topicVars>>

\* line 5, the draw succeeds
ResampleDraw ==
    /\ resample_pc = "randint"
    /\ ~randint_raises(Len(sample), resample_length)
    /\ \E idx \in randint(Len(sample), resample_length) :
          resample_index' = idx
    /\ resample_pc' = "index"
    /\ UNCHANGED <<sample, resample_length, resample_ret>>
    /\ UNCHANGED <<bootVars, llVars, keyVars, topicVars>>

\* line 6
ResampleReturn ==
    /\ resample_pc = "index"
    /\ resample_ret' = take(sample, resample_index)
    /\ resample_pc' = "returned"
    /\ UNCHANGED <<sample, resample_length, resample_index>>
    /\ UNCHANGED <<bootVars, llVars, keyVars, topicVars>>

ResNext ==
    \/ ResampleRaise
    \/ ResampleDraw
    \/ ResampleReturn

---------------------------------------------------------------------------
(* bootstrap.py: two_sample_bootstrap_test *)

\* stat_func applied to an array: np.sum, or np.mean (NaN on an empty array)
apply_stat(f, xs) ==
    IF f = "sum" THEN Float(SeqSum(xs))
    ELSE Quot(SeqSum(xs), Len(xs))

\* a ratio rule whose sign is 1 for a ratio of exactly 1.0 too
ratio_rule_ge(r1, r2) ==
    IF FGt(r2, Float(0))
    THEN LET stat == FDiv(r1, r2)
         IN  [stat |-> stat, sign |-> IF FGe(stat, Float(1)) THEN 1 ELSE 0]
    ELSE [stat |-> IF FGt(r1, Float(0)) THEN Inf ELSE Float(0),
          sign |-> IF FGt(r1, Float(0)) THEN 1 ELSE 0]

\* a ratio rule that records 0.0 and sign 0 whenever res2 is not positive
ratio_rule_no_inf(r1, r2) ==
    IF FGt(r2, Float(0))
    THEN LET stat == FDiv(r1, r2)
         IN  [stat |-> stat, sign |-> IF FGt(stat, Float(1)) THEN 1 ELSE 0]
    ELSE [stat |-> Float(0), sign |-> 0]

\* lines 19-24: the ratio and its sign
ratio_rule(r1, r2) ==
    IF FGt(r2, Float(0))
    THEN LET stat == FDiv(r1, r2)
         IN  [stat |-> stat, sign |-> IF FGt(stat, Float(1)) THEN 1 ELSE 0]
    ELSE [stat |-> IF FGt(r1, Float(0)) THEN Inf ELSE Float(0),
          sign |-> IF FGt(r1, Float(0)) THEN 1 ELSE 0]

\* a p-value that divides by one more than the number of trials
compute_p_value_off_by_one(signs) == Quot(SeqSum(signs), Len(signs) + 1)

\* line 27: sum(resampled_signs) / len(resampled_signs)
compute_p_value(signs) == Quot(SeqSum(signs), Len(signs))

\* line 28: np.array([resampled_stats, resampled_signs]), signs as floats
make_diagnostics(stats, signs) ==
    <<stats, [i \in 1..Len(signs) |-> Float(signs[i])]>>

\* no first call has returned yet
NoResult == [p_value |-> NaN, diagnostics |-> <<<<>>, <<>>>>]

BootIdle ==
    /\ sample1 = <<>>
    /\ sample2 = <<>>
    /\ stat_func = "sum"
    /\ num_samples = 0
    /\ n = 0
    /\ resample1 = <<>>
    /\ resample2 = <<>>
    /\ res1 = NaN
    /\ res2 = NaN
    /\ resampled_stats = <<>>
    /\ resampled_signs = <<>>
    /\ p_value = NaN
    /\ diagnostics = <<<<>>, <<>>>>
    /\ rng_draws = 0
    /\ pc = "idle"
    /\ rng = Unseeded
    /\ rng_log = <<>>
    /\ run = 1
    /\ first_result = NoResult

\* lines 9-13
BootInit ==
    /\ sample1 \in Samples
    /\ sample2 \in Samples
    /\ stat_func \in StatFuncs
    /\ num_samples \in 0..MaxTrials
    /\ num_samples * (Len(sample1) + Len(sample2)) <= MaxDraws
    /\ n = 0
    /\ resample1 = <<>>
    /\ resample2 = <<>>
    /\ res1 = NaN
    /\ res2 = NaN
    /\ resampled_stats = <<>>
    /\ resampled_signs = <<>>
    /\ p_value = NaN
    /\ diagnostics = <<<<>>, <<>>>>
    /\ rng_draws = 0
    /\ pc = "for"
    /\ rng = Unseeded
    /\ rng_log = <<>>
    /\ run = 1
    /\ first_result = NoResult

trial_draws_swapped(s1, s2) == <<s2, s1>>

\* lines 15-16: the samples one trial draws from, in the order of its draws
trial_draws(s1, s2) == <<s1, s2>>

\* lines 4-6: what one call of resample asks of the generator: as many
\* indices as the sample is long, each below its length
drawn(smp) == [sample |-> smp, high |-> Len(smp), size |-> Len(smp)]

\* line 14: the next trial
ForNext ==
    /\ pc = "for"
    /\ n < num_samples
    /\ pc' = "resample1"
    /\ UNCHANGED <<sample1, sample2, stat_func, num_samples, n, resample1,
                   resample2, res1, res2, resampled_stats, resampled_signs,
                   p_value, diagnostics, rng_draws>>
    /\ UNCHANGED <<rng, rng_log, run, first_result>>
    /\ UNCHANGED <<resVars, llVars, keyVars, topicVars>>

\* line 14: the loop is over
ForEnd ==
    /\ pc = "for"
    /\ n >= num_samples
    /\ pc' = "p_value"
    /\ UNCHANGED <<sample1, sample2, stat_func, num_samples, n, resample1,
                   resample2, res1, res2, resampled_stats, resampled_signs,
                   p_value, diagnostics, rng_draws>>
    /\ UNCHANGED <<rng, rng_log, run, first_result>>
    /\ UNCHANGED <<resVars, llVars, keyVars, topicVars>>

\* line 15
Resample1 ==
    /\ pc = "resample1"
    /\ \E r \in resample_from(rng, trial_draws(sample1, sample2)[1],
                              Len(trial_draws(sample1, sample2)[1])) :
          resample1' = r
    /\ rng' = rng_advance(rng, Len(trial_draws(sample1, sample2)[1]))
    /\ rng_log' = Append(rng_log, drawn(trial_draws(sample1, sample2)[1]))
    /\ rng_draws' = rng_draws + 1
    /\ pc' = "resample2"
    /\ UNCHANGED <<sample1, sample2, stat_func, num_samples, n, resample2,
                   res1, res2, resampled_stats, resampled_signs, p_value,
                   diagnostics>>
    /\ UNCHANGED <<run, first_result>>
    /\ UNCHANGED <<resVars, llVars, keyVars, topicVars>>

\* line 16
Resample2 ==
    /\ pc = "resample2"
    /\ \E r \in resample_from(rng, trial_draws(sample1, sample2)[2],
                              Len(trial_draws(sample1, sample2)[2])) :
          resample2' = r
    /\ rng' = rng_advance(rng, Len(trial_draws(sample1, sample2)[2]))
    /\ rng_log' = Append(rng_log, drawn(trial_draws(sample1, sample2)[2]))
    /\ rng_draws' = rng_draws + 1
    /\ pc' = "stat"
    /\ UNCHANGED <<sample1, sample2, stat_func, num_samples, n, resample1,
                   res1, res2, resampled_stats, resampled_signs, p_value,
                   diagnostics>>
    /\ UNCHANGED <<run, first_result>>
    /\ UNCHANGED <<resVars, llVars, keyVars, topicVars>>

\* lines 17-18
ApplyStat ==
    /\ pc = "stat"
    /\ res1' = apply_stat(stat_func, resample1)
    /\ res2' = apply_stat(stat_func, resample2)
    /\ pc' = "ratio"
    /\ UNCHANGED <<sample1, sample2, stat_func, num_samples, n, resample1,
                   resample2, resampled_stats, resampled_signs, p_value,
                   diagnostics, rng_draws>>
    /\ UNCHANGED <<rng, rng_log, run, first_result>>
    /\ UNCHANGED <<resVars, llVars, keyVars, topicVars>>

\* lines 19-26, and the loop index moving on
Record ==
    /\ pc = "ratio"
    /\ resampled_stats' = Append(resampled_stats, ratio_rule(res1, res2).stat)
    /\ resampled_signs' = Append(resampled_signs, ratio_rule(res1, res2).sign)
    /\ n' = n + 1
    /\ pc' = "for"
    /\ UNCHANGED <<sample1, sample2, stat_func, num_samples, resample1,
                   resample2, res1, res2, p_value, diagnostics, rng_draws>>
    /\ UNCHANGED <<rng, rng_log, run, first_result>>
    /\ UNCHANGED <<resVars, llVars, keyVars, topicVars>>

\* line 27, no trial was run: division by zero
PValueRaise ==
    /\ pc = "p_value"
    /\ Len(resampled_signs) = 0
    /\ pc' = "ZeroDivisionError"
    /\ UNCHANGED <<sample1, sample2, stat_func, num_samples, n, resample1,
                   resample2, res1, res2, resampled_stats, resampled_signs,
                   p_value, diagnostics, rng_draws>>
    /\ UNCHANGED <<rng, rng_log, run, first_result>>
    /\ UNCHANGED <<resVars, llVars, keyVars, topicVars>>

\* line 27
PValue ==
    /\ pc = "p_value"
    /\ Len(resampled_signs) > 0
    /\ p_value' = compute_p_value(resampled_signs)
    /\ pc' = "return"
    /\ UNCHANGED <<sample1, sample2, stat_func, num_samples, n, resample1,
                   resample2, res1, res2, resampled_stats, resampled_signs,
                   diagnostics, rng_draws>>
    /\ UNCHANGED <<rng, rng_log, run, first_result>>
    /\ UNCHANGED <<resVars, llVars, keyVars, topicVars>>

\* line 28
Return ==
    /\ pc = "return"
    /\ diagnostics' = make_diagnostics(resampled_stats, resampled_signs)
    /\ pc' = "returned"
    /\ UNCHANGED <<sample1, sample2, stat_func, num_samples, n, resample1,
                   resample2, res1, res2, resampled_stats, resampled_signs,
                   p_value, rng_draws>>
    /\ UNCHANGED <<rng, rng_log, run, first_result>>
    /\ UNCHANGED <<resVars, llVars, keyVars, topicVars>>

\* the caller seeds np.random with a seed of its choice and calls
\* two_sample_bootstrap_test: the stream holds the raw numbers the call reads
SeededInit ==
    /\ sample1 \in Samples
    /\ sample2 \in Samples
    /\ stat_func \in StatFuncs
    /\ num_samples \in 0..MaxTrials
    /\ num_samples * (Len(sample1) + Len(sample2)) <= MaxSeedDraws
    /\ n = 0
    /\ resample1 = <<>>
    /\ resample2 = <<>>
    /\ res1 = NaN
    /\ res2 = NaN
    /\ resampled_stats = <<>>
    /\ resampled_signs = <<>>
    /\ p_value = NaN
    /\ diagnostics = <<<<>>, <<>>>>
    /\ rng_draws = 0
    /\ pc = "for"
    /\ \E stream \in [1..(num_samples * (Len(sample1) + Len(sample2)))
                       -> 0..(MaxLen - 1)] : rng = Seeded(stream)
    /\ rng_log = <<>>
    /\ run = 1
    /\ first_result = NoResult

\* the first call has returned: the caller keeps its result, seeds np.random
\* with the same seed and calls again with the same arguments (lines 10-13
\* start every call from empty lists)
CallAgain ==
    /\ pc = "returned"
    /\ run = 1
    /\ rng.seeded
    /\ first_result' = [p_value |-> p_value, diagnostics |-> diagnostics]
    /\ run' = 2
    /\ rng' = Seeded(rng.stream)
    /\ rng_log' = <<>>
    /\ n' = 0
    /\ resample1' = <<>>
    /\ resample2' = <<>>
    /\ res1' = NaN
    /\ res2' = NaN
    /\ resampled_stats' = <<>>
    /\ resampled_signs' = <<>>
    /\ p_value' = NaN
    /\ diagnostics' = <<<<>>, <<>>>>
    /\ rng_draws' = 0
    /\ pc' = "for"
    /\ UNCHANGED <<sample1, sample2, stat_func, num_samples>>
    /\ UNCHANGED <<resVars, llVars, keyVars, topicVars>>

BootNext ==
    \/ ForNext
    \/ ForEnd
    \/ Resample1
    \/ Resample2
    \/ ApplyStat
    \/ Record
    \/ PValueRaise
    \/ PValue
    \/ Return

---------------------------------------------------------------------------
(* keyness.py: the 2x2 contingency table *)

\* line 6: _SMALL = 1e-20, the float m * 10^e
_SMALL == [m |-> 1, e |-> -20]

\* observed[i, j], with the source's indices 0 and 1
cell(t, i, j) == t[i + 1][j + 1]

\* observed[i, :].sum(), observed[:, j].sum(), observed.sum()
row_sum(t, i) == FAdd(cell(t, i, 0), cell(t, i, 1))
col_sum(t, j) == FAdd(cell(t, 0, j), cell(t, 1, j))
grand_total(t) == FAdd(row_sum(t, 0), row_sum(t, 1))

\* an expected table whose cell (0,1) takes the first column's sum
compute_expected_wrong_column(obs) ==
    << << FDiv(FMul(row_sum(obs, 0), col_sum(obs, 0)), grand_total(obs)),
          FDiv(FMul(row_sum(obs, 0), col_sum(obs, 0)), grand_total(obs)) >>,
       << FDiv(FMul(row_sum(obs, 1), col_sum(obs, 0)), grand_total(obs)),
          FDiv(FMul(row_sum(obs, 1), col_sum(obs, 1)), grand_total(obs)) >> >>

\* an expected table that answers zeros when the grand total is zero
compute_expected_guarded(obs) ==
    IF grand_total(obs) = Float(0)
    THEN << <<Float(0), Float(0)>>, <<Float(0), Float(0)>> >>
    ELSE << << FDiv(FMul(row_sum(obs, 0), col_sum(obs, 0)), grand_total(obs)),
               FDiv(FMul(row_sum(obs, 0), col_sum(obs, 1)), grand_total(obs)) >>,
            << FDiv(FMul(row_sum(obs, 1), col_sum(obs, 0)), grand_total(obs)),
               FDiv(FMul(row_sum(obs, 1), col_sum(obs, 1)), grand_total(obs)) >> >>

\* lines 9-22
compute_expected(obs) ==
    << << FDiv(FMul(row_sum(obs, 0), col_sum(obs, 0)), grand_total(obs)),
          FDiv(FMul(row_sum(obs, 0), col_sum(obs, 1)), grand_total(obs)) >>,
       << FDiv(FMul(row_sum(obs, 1), col_sum(obs, 0)), grand_total(obs)),
          FDiv(FMul(row_sum(obs, 1), col_sum(obs, 1)), grand_total(obs)) >> >>

(***************************************************************************)
(* np.log is kept symbolic.  A log value is a record [k, num, den, eps]:   *)
(* k = "ln" is the finite non-zero float ln((num + eps) / (den + eps)),    *)
(* k = "zero" is ln(1) = 0.0, and k = "nan", "inf", "-inf" are the special *)
(* values.  A sum of products x * log is a record [k, terms]: k = "fin" is *)
(* the float sum, in the order of accumulation, of the products            *)
(* terms[i].coef * terms[i].log, none of them zero.  A non-zero float is   *)
(* taken to be larger in magnitude than eps.                               *)
(***************************************************************************)
LogSpecial(kind, eps) == [k |-> kind, num |-> NaN, den |-> NaN, eps |-> eps]

\* the sign of the float x + eps, x not NaN
SmoothSign(x) == IF IsInf(x) THEN x[1] ELSE IF x[1] >= 0 THEN 1 ELSE -1

\* line 48: np.log((o + eps) / (x + eps))
log_smoothed(o, x, eps) ==
    IF IsNaN(o) \/ IsNaN(x) \/ (IsInf(o) /\ IsInf(x)) THEN LogSpecial("nan", eps)
    ELSE IF IsInf(x) THEN LogSpecial("-inf", eps)
    ELSE IF SmoothSign(o) * SmoothSign(x) < 0 THEN LogSpecial("nan", eps)
    ELSE IF IsInf(o) THEN LogSpecial("inf", eps)
    ELSE IF o = x THEN LogSpecial("zero", eps)
    ELSE [k |-> "ln", num |-> o, den |-> x, eps |-> eps]

\* the sign of a log value that is neither zero nor NaN
LogSign(lv) ==
    IF lv.k = "inf" THEN 1
    ELSE IF lv.k = "-inf" THEN -1
    ELSE IF FGt(lv.num, lv.den) THEN 1 ELSE -1

\* the kind of the float product o * lv
product_kind(o, lv) ==
    IF IsNaN(o) \/ lv.k = "nan" THEN "nan"
    ELSE IF lv.k = "zero" THEN (IF IsInf(o) THEN "nan" ELSE "zero")
    ELSE IF o[1] = 0 THEN (IF lv.k = "ln" THEN "zero" ELSE "nan")
    ELSE IF lv.k = "ln" /\ IsFinite(o) THEN "term"
    ELSE IF Sgn(o[1]) * LogSign(lv) > 0 THEN "inf" ELSE "-inf"

SumEmpty == [k |-> "fin", terms |-> <<>>]

\* line 48: sum_likelihood += o * lv
sum_add(acc, o, lv) ==
    LET pk == product_kind(o, lv)
    IN  IF acc.k = "nan" \/ pk = "nan" THEN [k |-> "nan", terms |-> <<>>]
        ELSE IF pk = "zero" THEN acc
        ELSE IF pk = "term"
             THEN (IF acc.k = "fin"
                   THEN [k |-> "fin",
                         terms |-> Append(acc.terms, [coef |-> o, log |-> lv])]
                   ELSE acc)
        ELSE IF acc.k = "fin" \/ acc.k = pk THEN [k |-> pk, terms |-> <<>>]
        ELSE [k |-> "nan", terms |-> <<>>]

\* a sum that leaves out the last cell
sum_likelihood_three_cells(obs, exp) ==
    sum_add(sum_add(sum_add(SumEmpty,
        cell(obs, 0, 0), log_smoothed(cell(obs, 0, 0), cell(exp, 0, 0), _SMALL)),
        cell(obs, 0, 1), log_smoothed(cell(obs, 0, 1), cell(exp, 0, 1), _SMALL)),
        cell(obs, 1, 0), log_smoothed(cell(obs, 1, 0), cell(exp, 1, 0), _SMALL))

\* lines 44-48: the cells in the order (0,0), (0,1), (1,0), (1,1)
sum_likelihood(obs, exp) ==
    sum_add(sum_add(sum_add(sum_add(SumEmpty,
        cell(obs, 0, 0), log_smoothed(cell(obs, 0, 0), cell(exp, 0, 0), _SMALL)),
        cell(obs, 0, 1), log_smoothed(cell(obs, 0, 1), cell(exp, 0, 1), _SMALL)),
        cell(obs, 1, 0), log_smoothed(cell(obs, 1, 0), cell(exp, 1, 0), _SMALL)),
        cell(obs, 1, 1), log_smoothed(cell(obs, 1, 1), cell(exp, 1, 1), _SMALL))

\* factor * sum, a float product
scaled(factor, sum) == [factor |-> factor, sum |-> sum]

\* a direction that is "more" on equality too
compute_log_likelihood_from_observed_ge(obs) ==
    LET exp == compute_expected(obs)
    IN  [score |-> scaled(2, sum_likelihood(obs, exp)),
         direction |-> IF FGe(cell(obs, 0, 0), cell(exp, 0, 0))
                       THEN "more" ELSE "less"]

\* the two directions taken for each other
compute_log_likelihood_from_observed_swapped(obs) ==
    LET exp == compute_expected(obs)
    IN  [score |-> scaled(2, sum_likelihood(obs, exp)),
         direction |-> IF FGt(cell(obs, 0, 0), cell(exp, 0, 0))
                       THEN "less" ELSE "more"]

\* lines 41-49: (score, direction)
compute_log_likelihood_from_observed(obs) ==
    LET exp == compute_expected(obs)
    IN  [score |-> scaled(2, sum_likelihood(obs, exp)),
         direction |-> IF FGt(cell(obs, 0, 0), cell(exp, 0, 0))
                       THEN "more" ELSE "less"]

\* a 2x2 table of counts 0..MaxCell, as floats
Tables == {<< <<Float(a), Float(b)>>, <<Float(c), Float(d)>> >> :
             a \in 0..MaxCell, b \in 0..MaxCell,
             c \in 0..MaxCell, d \in 0..MaxCell}

NoTable == << <<NaN, NaN>>, <<NaN, NaN>> >>

NoLL == [score |-> scaled(0, SumEmpty), direction |-> "none"]

LLIdle ==
    /\ observed = NoTable
    /\ expected = NoTable
    /\ ll = NoLL
    /\ ll_pc = "idle"

\* two tables of larger counts, called with as they stand
ExampleTables == { << <<Float(50), Float(10)>>, <<Float(10), Float(30)>> >>,
                   << <<Float(5), Float(10)>>, <<Float(10), Float(30)>> >> }

LLInit ==
    /\ observed \in Tables \cup ExampleTables
    /\ expected = NoTable
    /\ ll = NoLL
    /\ ll_pc = "call"

\* a call of compute_expected(observed)
CallComputeExpected ==
    /\ ll_pc = "call"
    /\ expected' = compute_expected(observed)
    /\ ll_pc' = "expected"
    /\ UNCHANGED <<observed, ll>>
    /\ UNCHANGED <<resVars, bootVars, keyVars, topicVars>>

\* a call of compute_log_likelihood_from_observed(observed)
CallLogLikelihood ==
    /\ ll_pc = "call"
    /\ expected' = compute_expected(observed)
    /\ ll' = compute_log_likelihood_from_observed(observed)
    /\ ll_pc' = "log_likelihood"
    /\ UNCHANGED observed
    /\ UNCHANGED <<resVars, bootVars, keyVars, topicVars>>

LLNext ==
    \/ CallComputeExpected
    \/ CallLogLikelihood

---------------------------------------------------------------------------
(* keyness.py: the frequency table *)

Keywords == {"k1", "k2", "k3"}

Categories == {"A", "B"}

Columns == Categories \cup {"Total"}

RECURSIVE SetSum(_, _)
\* the sum of f[x] over the x of S
SetSum(f, S) ==
    IF S = {} THEN 0
    ELSE LET x == CHOOSE y \in S : TRUE
         IN  f[x] + SetSum(f, S \ {x})

\* line 75: key_cat_freq['Total'] = key_cat_freq.sum(axis=1)
with_total(counts) ==
    [k \in DOMAIN counts |->
        [c \in Columns |->
            IF c = "Total" THEN SetSum(counts[k], Categories) ELSE counts[k][c]]]

\* the frequency tables: a count per keyword and category, and the Total
FrequencyTables ==
    {with_total(counts) : counts \in [Keywords -> [Categories -> 0..MaxCount]]}

\* keyword_cat_freq.sum(): the sum of a column over the keywords
column_sum(freq, c) == SetSum([k \in DOMAIN freq |-> freq[k][c]], DOMAIN freq)

\* totals whose ref_freq is subtracted the wrong way round
compute_category_totals_reversed(freq) ==
    [c \in Columns |->
        [target_freq |-> column_sum(freq, c),
         ref_freq |-> column_sum(freq, c) - column_sum(freq, "Total")]]

\* lines 59-68
compute_category_totals(freq) ==
    [c \in Columns |->
        [target_freq |-> column_sum(freq, c),
         ref_freq |-> column_sum(freq, "Total") - column_sum(freq, c)]]

\* lines 37-38
get_complement_from_row(row, source) == row["Total"] - row[source]

\* an observed table whose nt_ref subtracts t_target instead of t_ref
get_observed_from_row_wrong_ref(row, source, totals) ==
    LET t_target == row[source]
        t_ref == get_complement_from_row(row, source)
        nt_target == totals[source].target_freq - t_target
        nt_ref == totals[source].ref_freq - t_target
    IN  << <<Float(t_target), Float(t_ref)>>,
           <<Float(nt_target), Float(nt_ref)>> >>

\* lines 25-34
get_observed_from_row(row, source, totals) ==
    LET t_target == row[source]
        t_ref == get_complement_from_row(row, source)
        nt_target == totals[source].target_freq - t_target
        nt_ref == totals[source].ref_freq - t_ref
    IN  << <<Float(t_target), Float(t_ref)>>,
           <<Float(nt_target), Float(nt_ref)>> >>

\* the commented-out return of line 55: ll if sign == 'more' else -ll
compute_log_likelihood_from_row_signed(row, source, totals) ==
    LET obs == get_observed_from_row(row, source, totals)
        res == compute_log_likelihood_from_observed(obs)
    IN  IF res.direction = "more" THEN res.score
        ELSE scaled(-res.score.factor, res.score.sum)

\* lines 52-56
compute_log_likelihood_from_row(row, source, totals) ==
    LET obs == get_observed_from_row(row, source, totals)
        res == compute_log_likelihood_from_observed(obs)
    IN  res.score

\* line 81 as it reads without its comment sign: the totals are recomputed
\* from the table and the argument is ignored
compute_keyness_recomputing(freq, totals, cat) ==
    [k \in DOMAIN freq |->
        compute_log_likelihood_from_row(freq[k], cat,
                                        compute_category_totals(freq))]

\* lines 79-84: one value per row
compute_keyness(freq, totals, cat) ==
    [k \in DOMAIN freq |-> compute_log_likelihood_from_row(freq[k], cat, totals)]

NoTotals == [c \in Columns |-> [target_freq |-> 0, ref_freq |-> 0]]

NoKeyness == [k \in {} |-> 0]

KeyIdle ==
    /\ keyword_cat_freq = [k \in {} |-> 0]
    /\ keyword_cat_totals = NoTotals
    /\ category = "none"
    /\ key_observed = NoKeyness
    /\ keyness = NoKeyness
    /\ key_pc = "idle"

KeyInit ==
    /\ keyword_cat_freq \in FrequencyTables
    /\ keyword_cat_totals = NoTotals
    /\ category = "none"
    /\ key_observed = NoKeyness
    /\ keyness = NoKeyness
    /\ key_pc = "freq"

\* a table built from at most MaxRecords tagged records
KeyLifecycleInit ==
    /\ keyword_cat_freq \in
          {t \in FrequencyTables : column_sum(t, "Total") <= MaxRecords}
    /\ keyword_cat_totals = NoTotals
    /\ category = "none"
    /\ key_observed = NoKeyness
    /\ keyness = NoKeyness
    /\ key_pc = "freq"

\* lines 71-76: the table is built again from the data with one more record,
\* of keyword k in category c; the totals and results computed so far stay
\* as they are
ChangeFrequencyTable ==
    /\ key_pc \in {"totals", "keyness"}
    /\ column_sum(keyword_cat_freq, "Total") < MaxRecords
    /\ \E k \in Keywords, c \in Categories :
          /\ keyword_cat_freq[k][c] < MaxCount
          /\ keyword_cat_freq' =
                [keyword_cat_freq EXCEPT ![k][c] = @ + 1, ![k]["Total"] = @ + 1]
    /\ key_pc' = "changed"
    /\ UNCHANGED <<keyword_cat_totals, category, key_observed, keyness>>
    /\ UNCHANGED <<resVars, bootVars, llVars, topicVars>>

\* keyword_cat_totals = compute_category_totals(keyword_cat_freq)
CallComputeCategoryTotals ==
    /\ key_pc \in {"freq", "changed"}
    /\ keyword_cat_totals' = compute_category_totals(keyword_cat_freq)
    /\ key_pc' = "totals"
    /\ UNCHANGED <<keyword_cat_freq, category, key_observed, keyness>>
    /\ UNCHANGED <<resVars, bootVars, llVars, topicVars>>

\* compute_keyness(keyword_cat_freq, keyword_cat_totals, category);
\* key_observed keeps each row's observed table (line 53)
CallComputeKeyness ==
    /\ key_pc \in {"totals", "keyness", "changed"}
    /\ \E cat \in Columns :
          /\ category' = cat
          /\ key_observed' =
                [k \in DOMAIN keyword_cat_freq |->
                    get_observed_from_row(keyword_cat_freq[k], cat,
                                          keyword_cat_totals)]
          /\ keyness' = compute_keyness(keyword_cat_freq, keyword_cat_totals, cat)
    /\ key_pc' = "keyness"
    /\ UNCHANGED <<keyword_cat_freq, keyword_cat_totals>>
    /\ UNCHANGED <<resVars, bootVars, llVars, topicVars>>

KeyNext ==
    \/ CallComputeCategoryTotals
    \/ CallComputeKeyness

---------------------------------------------------------------------------
(* topic_summary.py: ModelAnalyser.run_summary on one model.  Document and *)
(* topic vectors are non-zero vectors of two integer coordinates, as the   *)
(* vectors of a trained model are non-zero.  A cosine distance is kept as  *)
(* the record [num, den2] of the float 1 - num / sqrt(den2), so that two   *)
(* distances are compared exactly.                                         *)

Vectors == {<<1, 0>>, <<0, 1>>, <<-1, 0>>, <<0, -1>>, <<1, 1>>}

RECURSIVE SeqsUpTo(_, _)
\* the sequences over S of length at most len
SeqsUpTo(S, len) ==
    IF len = 0 THEN {<<>>}
    ELSE LET shorter == SeqsUpTo(S, len - 1)
         IN  shorter \cup {Append(q, x) : q \in shorter, x \in S}

dot(u, v) == u[1] * v[1] + u[2] * v[2]

\* scipy.spatial.distance.cosine(u, v) = 1 - u.v / (|u| |v|)
cosine(u, v) == [num |-> dot(u, v), den2 |-> dot(u, u) * dot(v, v)]

\* the float comparison a > b of two cosine distances
dist_gt(a, b) ==
    IF a.num < 0 /\ b.num >= 0 THEN TRUE
    ELSE IF a.num >= 0 /\ b.num < 0 THEN FALSE
    ELSE IF a.num >= 0 THEN a.num * a.num * b.den2 < b.num * b.num * a.den2
    ELSE a.num * a.num * b.den2 > b.num * b.num * a.den2

\* np.argmax(ds): the first index, from 0, of a largest element
argmax(ds) ==
    CHOOSE i \in 0..(Len(ds) - 1) :
        /\ \A j \in 0..(Len(ds) - 1) : ~dist_gt(ds[j + 1], ds[i + 1])
        /\ \A j \in 0..(i - 1) : dist_gt(ds[i + 1], ds[j + 1])

\* set(range(tv.shape[0]))
all_topics(topic_vectors) == 0..(Len(topic_vectors) - 1)

\* set(l) of a list
set_of(l) == {l[i] : i \in 1..Len(l)}

\* list(S) of a set: its elements once each, in an order the set decides
list_of(S) ==
    {l \in [1..Cardinality(S) -> S] : \A x \in S : \E i \in DOMAIN l : l[i] = x}

\* topics counted over one more than the model has
map_topics_one_more(topic_vectors, doc_topics) ==
    [topics_with_isbn |-> set_of(doc_topics),
     topics_without_isbn |-> (0..Len(topic_vectors)) \ set_of(doc_topics)]

\* lines 353-385: the topics some document is given, and the other topics
map_topics(topic_vectors, doc_topics) ==
    [topics_with_isbn |-> set_of(doc_topics),
     topics_without_isbn |-> all_topics(topic_vectors) \ set_of(doc_topics)]

TopicIdle ==
    /\ tv = <<>>
    /\ dv = <<>>
    /\ document_topics = <<>>
    /\ unused_topics = {}
    /\ topics_with_isbn = {}
    /\ topics_without_isbn = {}
    /\ topics_without_isbn_ = <<>>
    /\ topic_pc = "idle"

\* lines 400-404: the vectors of the model loaded from the path
TopicInit ==
    /\ tv \in SeqsUpTo(Vectors, MaxTopics)
    /\ dv \in SeqsUpTo(Vectors, MaxDocs)
    /\ document_topics = <<>>
    /\ unused_topics = {}
    /\ topics_with_isbn = {}
    /\ topics_without_isbn = {}
    /\ topics_without_isbn_ = <<>>
    /\ topic_pc = "get_topics"

\* lines 406-407: np.argmax of an empty list raises
GetTopicsRaise ==
    /\ topic_pc = "get_topics"
    /\ Len(document_topics) < Len(dv)
    /\ Len(tv) = 0
    /\ topic_pc' = "ValueError"
    /\ UNCHANGED <<tv, dv, document_topics, unused_topics, topics_with_isbn,
                   topics_without_isbn, topics_without_isbn_>>
    /\ UNCHANGED <<resVars, bootVars, llVars, keyVars>>

\* lines 406-407: the next document's topic
GetTopicsAppend ==
    /\ topic_pc = "get_topics"
    /\ Len(document_topics) < Len(dv)
    /\ Len(tv) > 0
    /\ LET d_vector == dv[Len(document_topics) + 1]
       IN  document_topics' =
               Append(document_topics,
                      argmax([i \in 1..Len(tv) |-> cosine(d_vector, tv[i])]))
    /\ UNCHANGED <<tv, dv, unused_topics, topics_with_isbn,
                   topics_without_isbn, topics_without_isbn_, topic_pc>>
    /\ UNCHANGED <<resVars, bootVars, llVars, keyVars>>

\* lines 409-411, and line 475 where run_summary takes the two results
GetTopicsReturn ==
    /\ topic_pc = "get_topics"
    /\ Len(document_topics) = Len(dv)
    /\ unused_topics' = all_topics(tv) \ set_of(document_topics)
    /\ topic_pc' = "add_isbn"
    /\ UNCHANGED <<tv, dv, document_topics, topics_with_isbn,
                   topics_without_isbn, topics_without_isbn_>>
    /\ UNCHANGED <<resVars, bootVars, llVars, keyVars>>

\* lines 478-480 and 413-458: add_isbn on the same model, with map_topics
AddIsbn ==
    /\ topic_pc = "add_isbn"
    /\ LET mapped == map_topics(tv, document_topics)
       IN  /\ topics_with_isbn' = mapped.topics_with_isbn
           /\ topics_without_isbn' = mapped.topics_without_isbn
           /\ \E l \in list_of(mapped.topics_without_isbn \ unused_topics) :
                 topics_without_isbn_' = l
    /\ topic_pc' = "summary"
    /\ UNCHANGED <<tv, dv, document_topics, unused_topics>>
    /\ UNCHANGED <<resVars, bootVars, llVars, keyVars>>

TopicNext ==
    \/ GetTopicsRaise
    \/ GetTopicsAppend
    \/ GetTopicsReturn
    \/ AddIsbn

---------------------------------------------------------------------------
(* Specifications. *)

InitResample == ResInit /\ BootIdle /\ LLIdle /\ KeyIdle /\ TopicIdle

SpecResample == InitResample /\ [][ResNext]_vars

InitBootstrap == BootInit /\ ResIdle /\ LLIdle /\ KeyIdle /\ TopicIdle

SpecBootstrap == InitBootstrap /\ [][BootNext]_vars

InitSeeded == SeededInit /\ ResIdle /\ LLIdle /\ KeyIdle /\ TopicIdle

SeededNext ==
    \/ ForNext
    \/ ForEnd
    \/ Resample1
    \/ Resample2
    \/ ApplyStat
    \/ Record
    \/ PValueRaise
    \/ PValue
    \/ Return
    \/ CallAgain

SpecSeeded == InitSeeded /\ [][SeededNext]_vars

InitLogLikelihood == LLInit /\ ResIdle /\ BootIdle /\ KeyIdle /\ TopicIdle

SpecLogLikelihood == InitLogLikelihood /\ [][LLNext]_vars

InitKeyness == KeyInit /\ ResIdle /\ BootIdle /\ LLIdle /\ TopicIdle

SpecKeyness == InitKeyness /\ [][KeyNext]_vars

InitKeyLifecycle == KeyLifecycleInit /\ ResIdle /\ BootIdle /\ LLIdle /\ TopicIdle

KeyLifecycleNext ==
    \/ CallComputeCategoryTotals
    \/ CallComputeKeyness
    \/ ChangeFrequencyTable

SpecKeyLifecycle == InitKeyLifecycle /\ [][KeyLifecycleNext]_vars

InitTopics == TopicInit /\ ResIdle /\ BootIdle /\ LLIdle /\ KeyIdle

SpecTopics == InitTopics /\ [][TopicNext]_vars

---------------------------------------------------------------------------
(* Claims about bootstrap.py. *)

\* a trial has just been recorded: res1 and res2 are its v1 and v2, and its
\* ratio and sign are the last entries of the two lists
TrialRecorded == pc = "for" /\ n > 0

\* C1: in every trial, with v1 = stat(r1) and v2 = stat(r2): if v2 > 0 the
\* recorded ratio is v1 / v2 and the recorded sign is 1 exactly when the
\* ratio is > 1.0; if v2 <= 0 the recorded ratio is +infinity when v1 > 0.0
\* and 0.0 otherwise, and the recorded sign is 1 exactly when v1 > 0.0.
C1_RatioRule ==
    TrialRecorded =>
        LET ratio == resampled_stats[n]
            sign == resampled_signs[n]
        IN  /\ sign \in {0, 1}
            /\ FGt(res2, Float(0)) =>
                  /\ ratio = FDiv(res1, res2)
                  /\ (sign = 1) <=> FGt(ratio, Float(1))
            /\ FGe(Float(0), res2) =>
                  /\ ratio = (IF FGt(res1, Float(0)) THEN Inf ELSE Float(0))
                  /\ (sign = 1) <=> FGt(res1, Float(0))

\* C1 witness: the first trial had v2 <= 0 and v1 > 0 (ratio +infinity, sign
\* 1) and the second had v2 > 0 and a ratio above 1 (sign 1)
C1_Witness ==
    /\ TrialRecorded
    /\ n = 2
    /\ resampled_stats[1] = Inf
    /\ resampled_signs[1] = 1
    /\ FGt(res2, Float(0))
    /\ FGt(resampled_stats[2], Float(1))
    /\ resampled_signs[2] = 1

\* the number of trials whose sign is 1
RECURSIVE CountOnes(_)
CountOnes(signs) ==
    IF Len(signs) = 0 THEN 0
    ELSE (IF signs[1] = 1 THEN 1 ELSE 0) + CountOnes(Tail(signs))

\* what a call with trials >= 1 holds while it runs and when it has returned
C2_State ==
    num_samples >= 1 /\ pc # "idle" =>
        /\ pc # "ZeroDivisionError"
        /\ Len(resampled_stats) = n
        /\ Len(resampled_signs) = n
        /\ pc = "returned" =>
              /\ Len(diagnostics[1]) = num_samples
              /\ Len(diagnostics[2]) = num_samples
              /\ \A i \in 1..num_samples :
                    /\ diagnostics[1][i] = resampled_stats[i]
                    /\ diagnostics[2][i] = Float(resampled_signs[i])
              /\ p_value = Quot(CountOnes(resampled_signs), num_samples)
              /\ FGe(p_value, Float(0))
              /\ FGe(Float(1), p_value)
              /\ num_samples = 1 =>
                    /\ Len(diagnostics[1]) = 1
                    /\ p_value \in {Float(0), Float(1)}

\* a step that changes the lists records trial n + 1 after the n pairs of
\* the trials before it, which it leaves as they are
C2_Step ==
    (resampled_stats' # resampled_stats \/ resampled_signs' # resampled_signs) =>
        /\ Len(resampled_stats') = n + 1
        /\ Len(resampled_signs') = n + 1
        /\ n' = n + 1
        /\ \A i \in 1..n :
              /\ resampled_stats'[i] = resampled_stats[i]
              /\ resampled_signs'[i] = resampled_signs[i]

\* C2: for every call with trials >= 1 the returned diagnostics hold exactly
\* one (ratio, sign) pair per trial, in trial order, and p_value is the
\* number of trials whose sign is 1 divided by trials, so it lies in [0, 1];
\* with trials = 1 there is exactly one pair and p_value is 0.0 or 1.0.
C2_Diagnostics == [](C2_State) /\ [][C2_Step]_vars

\* C2 witness: two trials were run, one of sign 1 and one of sign 0
C2_Witness ==
    /\ pc = "returned"
    /\ num_samples = 2
    /\ p_value = Quot(1, 2)
    /\ Len(diagnostics[1]) = 2

\* C9: for every sample S and every length >= 0 such that S is non-empty or
\* length = 0, resample(S, length) returns (it does not raise) a sequence of
\* exactly length elements, each the element of S at some index in
\* [0, len(S)); resample(S, 0) is the empty sequence for any S, an empty S
\* included.
C9_Resample ==
    /\ (Len(sample) > 0 \/ resample_length = 0) =>
          /\ resample_pc # "ValueError"
          /\ resample_pc = "randint" => ENABLED ResampleDraw
          /\ resample_pc = "index" => ENABLED ResampleReturn
    /\ resample_pc = "returned" =>
          /\ Len(resample_ret) = resample_length
          /\ \A i \in 1..Len(resample_ret) :
                /\ \E j \in 0..(Len(sample) - 1) : resample_ret[i] = sample[j + 1]
                /\ resample_index[i] \in 0..(Len(sample) - 1)
                /\ resample_ret[i] = sample[resample_index[i] + 1]
          /\ resample_length = 0 => resample_ret = <<>>

\* C9 witness: a resample of two elements that takes the same element of a
\* two-element sample twice
C9_Witness ==
    /\ resample_pc = "returned"
    /\ Len(sample) = 2
    /\ sample[1] # sample[2]
    /\ resample_length = 2
    /\ resample_ret[1] = resample_ret[2]

\* C10: resample(S, length) with an empty S and length > 0 fails with an
\* error (ValueError, the invalid-argument error) and returns no sequence.
C10_ResampleRaises ==
    (resample_pc # "idle" /\ Len(sample) = 0 /\ resample_length > 0) =>
        /\ resample_pc \in {"randint", "ValueError"}
        /\ resample_pc = "randint" => (ENABLED ResampleRaise /\ ~ENABLED ResampleDraw)
        /\ resample_ret = <<>>

\* C10 witness: the call on an empty sample with a positive length has
\* raised
C10_Witness ==
    /\ resample_pc = "ValueError"
    /\ Len(sample) = 0
    /\ resample_length > 0

---------------------------------------------------------------------------
(* Claims about keyness.py. *)

\* the integer count in cell (i, j) of the observed table
Count(i, j) == cell(observed, i, j)[1]

RowCount(i) == Count(i, 0) + Count(i, 1)
ColCount(j) == Count(0, j) + Count(1, j)
TotalCount == RowCount(0) + RowCount(1)

\* row_sum(i) * col_sum(j) / grand_total, from the counts
ExpectedCell(i, j) == Quot(RowCount(i) * ColCount(j), TotalCount)

\* C3: the direction is "more" exactly when observed[0,0] > expected[0,0],
\* where expected[0,0] = row_sum(0) * col_sum(0) / grand_total, and "less"
\* in every other case, equality included; the comparison reads no cell
\* other than (0,0) of the two tables.
C3_Direction ==
    ll_pc = "log_likelihood" =>
        ll.direction = (IF FGt(Float(Count(0, 0)), ExpectedCell(0, 0))
                        THEN "more" ELSE "less")

\* C3 witness: observed[0,0] equals a non-zero expected[0,0], and the
\* direction is "less"
C3_Witness ==
    /\ ll_pc = "log_likelihood"
    /\ Count(0, 0) > 0
    /\ Float(Count(0, 0)) = ExpectedCell(0, 0)
    /\ ll.direction = "less"

\* the cells (i, j) in the order of the two loops
CellOrder == << <<0, 0>>, <<0, 1>>, <<1, 0>>, <<1, 1>> >>

\* the cells that count in the sum: all but those with observed[i,j] = 0 and
\* a finite expected[i,j]
Contributing(ij) ==
    ~(Count(ij[1], ij[2]) = 0 /\ IsFinite(cell(expected, ij[1], ij[2])))

RECURSIVE SumOver(_, _)
\* the sum, from acc on, of observed * ln((observed + 1e-20) / (expected +
\* 1e-20)) over the contributing cells of a list
SumOver(acc, cells) ==
    IF Len(cells) = 0 THEN acc
    ELSE LET i == cells[1][1]
             j == cells[1][2]
             next == IF Contributing(cells[1])
                     THEN sum_add(acc, cell(observed, i, j),
                                  log_smoothed(cell(observed, i, j),
                                               cell(expected, i, j),
                                               [m |-> 1, e |-> -20]))
                     ELSE acc
         IN  SumOver(next, Tail(cells))

\* C4: score = 2 * (the sum over the four cells of observed[i,j] *
\* ln((observed[i,j] + eps) / (expected[i,j] + eps))) with eps = 1e-20 and
\* expected = compute_expected(observed); a cell with observed[i,j] = 0 and a
\* finite expected value contributes exactly 0 to the sum.
C4_Score ==
    ll_pc = "log_likelihood" =>
        /\ \A i \in {0, 1}, j \in {0, 1} :
              TotalCount > 0 => cell(expected, i, j) = ExpectedCell(i, j)
        /\ ll.score.factor = 2
        /\ ll.score.sum = SumOver([k |-> "fin", terms |-> <<>>], CellOrder)

\* C4 witness: observed[0,0] = 0 with a finite non-zero expected[0,0], and
\* the three other cells each add a term to the sum
C4_Witness ==
    /\ ll_pc = "log_likelihood"
    /\ Count(0, 0) = 0
    /\ FGt(cell(expected, 0, 0), Float(0))
    /\ ll.score.sum.k = "fin"
    /\ Len(ll.score.sum.terms) = 3

\* all four margins of the observed table are positive
PositiveMargins ==
    /\ RowCount(0) > 0
    /\ RowCount(1) > 0
    /\ ColCount(0) > 0
    /\ ColCount(1) > 0

\* C5: for every 2x2 table of non-negative counts whose row sums and column
\* sums are all positive, compute_expected has cell (i,j) = row_sum(i) *
\* col_sum(j) / grand_total, and the sum of its four cells equals the sum of
\* the four cells of the table.
C5_Expected ==
    (ll_pc = "expected" /\ PositiveMargins) =>
        /\ \A i \in {0, 1}, j \in {0, 1} :
              cell(expected, i, j) = ExpectedCell(i, j)
        /\ FAdd(FAdd(cell(expected, 0, 0), cell(expected, 0, 1)),
                FAdd(cell(expected, 1, 0), cell(expected, 1, 1)))
              = Float(TotalCount)

\* C5 witness: an expected table of a table with positive margins, with a
\* cell that is not a whole number
C5_Witness ==
    /\ ll_pc = "expected"
    /\ PositiveMargins
    /\ cell(expected, 0, 0)[2] > 1

\* C6: with totals = compute_category_totals(table), for every keyword row
\* and every category the observed table is [[t_target, t_ref], [nt_target,
\* nt_ref]] with t_target = row[category], t_ref = row.Total - t_target,
\* nt_target = totals[category].target_freq - t_target, nt_ref =
\* totals[category].ref_freq - t_ref, and all four cells are >= 0.
C6_Observed ==
    key_pc = "keyness" =>
        \A k \in Keywords :
            LET row == keyword_cat_freq[k]
                t_target == row[category]
                t_ref == row["Total"] - t_target
                nt_target == keyword_cat_totals[category].target_freq - t_target
                nt_ref == keyword_cat_totals[category].ref_freq - t_ref
            IN  /\ key_observed[k] = << <<Float(t_target), Float(t_ref)>>,
                                        <<Float(nt_target), Float(nt_ref)>> >>
                /\ \A i \in {0, 1}, j \in {0, 1} :
                      FGe(cell(key_observed[k], i, j), Float(0))

\* C6 witness: the observed table of a row for category "A" with four
\* positive cells
C6_Witness ==
    /\ key_pc = "keyness"
    /\ category = "A"
    /\ \E k \in Keywords :
          \A i \in {0, 1}, j \in {0, 1} :
              FGt(cell(key_observed[k], i, j), Float(0))

\* the sum of a column of the frequency table over the three keywords
ColumnTotal(c) ==
    keyword_cat_freq["k1"][c] + keyword_cat_freq["k2"][c]
        + keyword_cat_freq["k3"][c]

\* C7: for every column of the frequency table, the "Total" column
\* included, target_freq is the sum of that column over all keywords and
\* ref_freq is (the sum of the Total column) - target_freq.
C7_CategoryTotals ==
    key_pc \in {"totals", "keyness"} =>
        /\ DOMAIN keyword_cat_totals = Categories \cup {"Total"}
        /\ \A c \in Categories \cup {"Total"} :
              /\ keyword_cat_totals[c].target_freq = ColumnTotal(c)
              /\ keyword_cat_totals[c].ref_freq
                    = ColumnTotal("Total") - ColumnTotal(c)

\* C7 witness: totals with both categories present, so that each has a
\* positive target_freq and ref_freq, and "Total" has ref_freq 0
C7_Witness ==
    /\ key_pc = "totals"
    /\ keyword_cat_totals["A"].target_freq > 0
    /\ keyword_cat_totals["A"].ref_freq > 0
    /\ keyword_cat_totals["Total"].target_freq > 0
    /\ keyword_cat_totals["Total"].ref_freq = 0

\* C8: compute_keyness returns exactly one score per keyword row, each the
\* score component of compute_log_likelihood_from_observed of the row's
\* observed table: the direction is discarded and the score is never
\* negated, whether the direction is "more" or "less".
C8_Keyness ==
    key_pc = "keyness" =>
        /\ DOMAIN keyness = DOMAIN keyword_cat_freq
        /\ \A k \in DOMAIN keyword_cat_freq :
              LET res == compute_log_likelihood_from_observed(key_observed[k])
              IN  /\ res.direction \in {"more", "less"}
                  /\ keyness[k] = res.score
                  /\ keyness[k].factor = 2

\* C8 witness: one call scores a row of direction "more" and a row of
\* direction "less", both with a non-zero sum
C8_Witness ==
    /\ key_pc = "keyness"
    /\ \E k1 \in Keywords, k2 \in Keywords :
          /\ compute_log_likelihood_from_observed(key_observed[k1]).direction = "more"
          /\ compute_log_likelihood_from_observed(key_observed[k2]).direction = "less"
          /\ keyness[k1].sum.k = "fin" /\ keyness[k1].sum.terms # <<>>
          /\ keyness[k2].sum.k = "fin" /\ keyness[k2].sum.terms # <<>>

---------------------------------------------------------------------------
(* Claims about bootstrap.py: zero trials, the degenerate case. *)

\* C11: a call with trials = 0 fails fast with the invalid-argument error
\* (ValueError): it ends in no other error and returns nothing.
C11_ZeroTrialsRejected ==
    (pc # "idle" /\ num_samples = 0) => pc \in {"for", "p_value", "ValueError"}

\* every element of s satisfies v > 0, or every element is 0
AllPositive(s) == \A i \in 1..Len(s) : s[i] > 0
AllZero(s) == \A i \in 1..Len(s) : s[i] = 0

\* inputs for which the statistic of every sample1 resample is positive and
\* that of every sample2 resample is 0, such as sample1 = [1, ..., 1] and
\* sample2 = [0, ..., 0] with the mean
Degenerate ==
    /\ pc # "idle"
    /\ Len(sample1) > 0 /\ AllPositive(sample1)
    /\ Len(sample2) > 0 /\ AllZero(sample2)

\* C12: whenever in every trial the statistic of the sample1 resample is
\* positive and that of the sample2 resample is 0, every trial records
\* ratio = +infinity and sign = 1, and p_value = 1.0.
C12_Degenerate ==
    Degenerate =>
        /\ pc = "ratio" => (FGt(res1, Float(0)) /\ res2 = Float(0))
        /\ \A i \in 1..Len(resampled_stats) :
              resampled_stats[i] = Inf /\ resampled_signs[i] = 1
        /\ pc \in {"return", "returned"} => p_value = Float(1)
        /\ pc = "returned" =>
              \A i \in 1..num_samples :
                  diagnostics[1][i] = Inf /\ diagnostics[2][i] = Float(1)

\* C12 witness: two trials of the mean on sample1 = [1, 1], sample2 = [0]
\* have returned p_value 1.0
C12_Witness ==
    /\ pc = "returned"
    /\ sample1 = <<1, 1>>
    /\ sample2 = <<0>>
    /\ stat_func = "mean"
    /\ num_samples = 2
    /\ p_value = Float(1)
    /\ diagnostics[1] = <<Inf, Inf>>

IsOdd(k) == k % 2 = 1

\* the draws made so far are, in turn, one for sample1 and one for sample2
DrawsAlternate ==
    \A k \in 1..Len(rng_log) :
        rng_log[k] = (IF IsOdd(k)
                      THEN [sample |-> sample1, high |-> Len(sample1),
                            size |-> Len(sample1)]
                      ELSE [sample |-> sample2, high |-> Len(sample2),
                            size |-> Len(sample2)])

C14_State ==
    pc # "idle" =>
        /\ Len(rng_log) = rng_draws
        /\ DrawsAlternate
        /\ pc \in {"for", "resample1", "p_value", "return", "returned",
                   "ZeroDivisionError"} => rng_draws = 2 * n
        /\ pc = "resample2" => rng_draws = 2 * n + 1
        /\ pc \in {"stat", "ratio"} => rng_draws = 2 * n + 2
        /\ rng.seeded => rng.pos = n * (Len(sample1) + Len(sample2))
                                    + (IF pc = "resample2" THEN Len(sample1)
                                       ELSE IF pc \in {"stat", "ratio"}
                                       THEN Len(sample1) + Len(sample2) ELSE 0)

\* a step draws at most once, and only at the two resample calls; applying
\* stat_func and recording a trial draw nothing
C14_Step ==
    /\ (pc \in {"stat", "ratio"} /\ run' = run) => rng_log' = rng_log
    /\ run' = run =>
          \/ rng_log' = rng_log
          \/ /\ Len(rng_log') = Len(rng_log) + 1
             /\ SubSeq(rng_log', 1, Len(rng_log)) = rng_log

\* C14: every trial takes exactly two draws from the random source, the one
\* for sample1 (len(sample1) indices) before the one for sample2
\* (len(sample2) indices), both before stat_func is applied; the draws of a
\* trial come before those of the next, and after k trials 2k draws are made.
C14_DrawOrder == [](C14_State) /\ [][C14_Step]_vars

C14_Witness ==
    /\ pc = "returned" /\ num_samples = 2 /\ rng_draws = 4
    /\ sample1 = <<1>> /\ sample2 = <<0, 1>>
    /\ Len(rng_log) = 4 /\ rng_log[3].size = 1 /\ rng_log[4].size = 2

AllNaN(t) == \A i \in {0, 1}, j \in {0, 1} : IsNaN(cell(t, i, j))

\* C15: for a 2x2 table of counts whose grand total is 0, neither
\* compute_expected nor compute_log_likelihood_from_observed raises: both
\* calls return, every expected cell is NaN, the score is NaN and the
\* direction is "less".
C15_ZeroTotal ==
    (ll_pc # "idle" /\ TotalCount = 0) =>
        /\ ll_pc \in {"call", "expected", "log_likelihood"}
        /\ ll_pc = "call" =>
              (ENABLED CallComputeExpected /\ ENABLED CallLogLikelihood)
        /\ ll_pc = "expected" => AllNaN(expected)
        /\ ll_pc = "log_likelihood" =>
              /\ AllNaN(expected)
              /\ ll.score.sum.k = "nan"
              /\ ll.direction = "less"

C15_Witness ==
    /\ ll_pc = "log_likelihood"
    /\ observed = << <<Float(0), Float(0)>>, <<Float(0), Float(0)>> >>
    /\ AllNaN(expected)
    /\ ll.score = scaled(2, [k |-> "nan", terms |-> <<>>])
    /\ ll.direction = "less"

Example1 == << <<Float(50), Float(10)>>, <<Float(10), Float(30)>> >>
Example2 == << <<Float(5), Float(10)>>, <<Float(10), Float(30)>> >>

\* C17 as stated: direction "more" for [[50,10],[10,30]] and direction "less"
\* for [[5,10],[10,30]].
C17_AsStated ==
    ll_pc = "log_likelihood" =>
        /\ observed = Example1 => ll.direction = "more"
        /\ observed = Example2 => ll.direction = "less"

\* C17: compute_log_likelihood_from_observed returns direction "more" for
\* the table [[50,10],[10,30]], whose expected[0,0] is 36, and direction
\* "more" as well for the table [[5,10],[10,30]], whose expected[0,0] is
\* 225/55 = 45/11, below the observed 5.
C17_Examples ==
    ll_pc = "log_likelihood" =>
        /\ observed = Example1 =>
              (cell(expected, 0, 0) = Float(36) /\ ll.direction = "more")
        /\ observed = Example2 =>
              (cell(expected, 0, 0) = <<45, 11>> /\ ll.direction = "more")

C17_Witness ==
    /\ ll_pc = "log_likelihood"
    /\ observed = Example2
    /\ cell(expected, 0, 0) = <<45, 11>>
    /\ ll.direction = "more"

\* the totals at hand are those of the table at hand
TotalsFresh == keyword_cat_totals = compute_category_totals(keyword_cat_freq)

\* C16 as stated: the totals every compute_keyness call uses are
\* compute_category_totals of the table passed to that call, whatever changes
\* of the table and computations came before.
C16_NeverStale ==
    key_pc = "keyness" =>
        /\ TotalsFresh
        /\ \A k \in Keywords :
              keyness[k] = compute_log_likelihood_from_row(
                               keyword_cat_freq[k], category,
                               compute_category_totals(keyword_cat_freq))

C16_State ==
    /\ key_pc = "totals" => TotalsFresh
    /\ key_pc = "keyness" =>
          \A k \in Keywords :
              /\ key_observed[k] = get_observed_from_row(
                                       keyword_cat_freq[k], category,
                                       keyword_cat_totals)
              /\ keyness[k] = compute_log_likelihood_from_row(
                                  keyword_cat_freq[k], category,
                                  keyword_cat_totals)

C16_Step ==
    /\ keyword_cat_totals' # keyword_cat_totals => key_pc' = "totals"
    /\ (TotalsFresh /\ key_pc # "freq"
           /\ keyword_cat_freq' = keyword_cat_freq) => TotalsFresh'
    /\ key_pc' = "keyness" => UNCHANGED <<keyword_cat_freq, keyword_cat_totals>>

\* C16: compute_keyness uses the totals its caller passes and recomputes
\* nothing: each score is that of the row under the totals passed.  The
\* totals change only by a call of compute_category_totals, after which they
\* are those of the table, and they stay so while the table is not changed.
C16_TotalsAsPassed == [](C16_State) /\ [][C16_Step]_vars

\* C16 witness: compute_keyness has run on a changed table with the totals
\* of the table before the change
C16_Witness ==
    /\ key_pc = "keyness"
    /\ ~TotalsFresh
    /\ keyword_cat_totals["A"].target_freq = 1
    /\ column_sum(keyword_cat_freq, "A") = 2
    /\ category = "A"
    /\ \E k \in Keywords :
          keyness[k] # compute_log_likelihood_from_row(
                           keyword_cat_freq[k], category,
                           compute_category_totals(keyword_cat_freq))

\* no topic is strictly closer to the document vector d than topic t
IsClosest(t, d) ==
    \A j \in 1..Len(tv) : ~dist_gt(cosine(d, tv[t + 1]), cosine(d, tv[j]))

\* C18: get_topics gives every document the index of the topic closest to it,
\* the one of smallest cosine distance, and unused_topics is exactly the set
\* of the topics of the model that are no document's closest topic.
C18_ClosestTopic ==
    topic_pc \in {"add_isbn", "summary"} =>
        /\ Len(document_topics) = Len(dv)
        /\ \A i \in 1..Len(dv) : IsClosest(document_topics[i], dv[i])
        /\ unused_topics =
              {t \in all_topics(tv) : \A i \in 1..Len(dv) : document_topics[i] # t}

\* C19: in run_summary the list 'topics_without_isbn' that add_isbn produces
\* is empty: map_topics' topics_without_isbn, all topics minus the set of
\* document_topics, is the set get_topics returned as non-dominant.
C19_NothingUnmapped ==
    topic_pc = "summary" =>
        /\ topics_without_isbn = unused_topics
        /\ topics_without_isbn_ = <<>>

C19_Witness ==
    /\ topic_pc = "summary"
    /\ Len(tv) = 2 /\ Len(dv) = 2
    /\ unused_topics = {0}
    /\ topics_without_isbn = {0}
    /\ topics_without_isbn_ = <<>>

=============================================================================
